---- MODULE Spec2Model ----
(***************************************************************************)
(* A model of the Ternary Mesh Tree of src/src/index.ts: the node and      *)
(* leaf-data arrays, build, update, batchUpdate, verify, proof generation  *)
(* and verification, and JSON serialization.                               *)
(*                                                                         *)
(* Bytes.  A byte array is a sequence of 32-byte words.  A word is either  *)
(* a raw word [b |-> k] or a digest [h |-> d], the BLAKE3 hash of the byte *)
(* array d.  The hash is therefore injective (collision free), and, as in  *)
(* the code, hashing a leaf and combining children are the same function   *)
(* of the raw bytes: combineHashes(<<h1, h2>>) = computeHash(<<h1, h2>>).  *)
(*                                                                         *)
(* Node ids are 0-based as in the code; nodes[id + 1] is node id.          *)
(***************************************************************************)
EXTENDS Integers, Sequences, FiniteSets, TLC

VARIABLES
    nodes,      \* this.nodes: sequence of InternalNode
    leafData,   \* this.leafData: sequence of byte arrays
    rootID,     \* this.rootID: a node id or Null
    leafCount,  \* this.leafCount
    hashCache,  \* this.hashCache: a function from cache key to digest
    cfg,        \* this.cfg
    lastMut,    \* the last mutating call (build, update, batchUpdate) and its outcome
    lastQuery,  \* the read-only call made on the tree, and what it returned
    updates,    \* update and batchUpdate calls completed since the last build
    pending     \* the build call suspended at an await, and its local variables

tree == <<nodes, leafData, rootID, leafCount>>
vars == <<nodes, leafData, rootID, leafCount, hashCache, cfg, lastMut, lastQuery, updates,
          pending>>

---------------------------------------------------------------------------
(* Values *)

\* null (rootID, parent, the error slot of a result pair)
Null == -1

\* a hole of a JavaScript array created by new Array(n): reads as undefined
Undefined == [u |-> 0]

\* the two blocks callers supply, and the empty byte array
BlockA == <<[b |-> 1]>>
BlockB == <<[b |-> 2]>>
Empty == <<>>
Data == {BlockA, BlockB}

\* bounds of the model
MaxBlocks == 4
MaxBigBlocks == 10
MaxUpdates == 2

\* ErrorMessages
EMPTY_DATA == "cannot build tree from empty data"
INVALID_INDEX == "invalid index"
UNINITIALIZED == "tree is not initialized"
SERIALIZATION == "serialization error"
INVALID_PROOF == "invalid proof"
MISSING_PARENT == "missing parent while walking upward"
\* the TypeError the runtime throws on a property read of, or a copy from, undefined
TYPE_ERROR == "TypeError"
\* no exception thrown
NoThrow == "none"
\* the null error of a returned [ok, err] pair
NoError == "null"

---------------------------------------------------------------------------
(* Hash utilities *)

computeHash(data) == [h |-> data]

\* combined.set(hashes[i], i * 32) throws a TypeError when hashes[i] is undefined
combineThrows(hashes) == \E i \in 1..Len(hashes) : hashes[i] = Undefined

\* a combine that writes every child hash at offset 0: only the last one is hashed
combineHashesAtOffsetZero(hashes) == [h |-> <<hashes[Len(hashes)]>>]

combineHashes(hashes) == [h |-> hashes]

\* a comparison of the lengths alone: any two digests are equal
hashesEqualByLength(a, b) == TRUE

hashesEqual(a, b) == a = b

---------------------------------------------------------------------------
(* Config *)

defaultConfig ==
    [enableCaching |-> TRUE, maxCacheSize |-> 10000,
     enableMetrics |-> TRUE, parallelThreshold |-> 1000]

\* a configuration with a one-entry cache and the parallel stage from 3 nodes on
smallConfig ==
    [enableCaching |-> TRUE, maxCacheSize |-> 1,
     enableMetrics |-> TRUE, parallelThreshold |-> 3]

Configs == {defaultConfig, smallConfig}

---------------------------------------------------------------------------
(* Node array helpers *)

Node(ns, id) == ns[id + 1]

IsNodeId(ns, id) == id \in 0..(Len(ns) - 1)

\* the hashes of the nodes listed in ids, in order
ChildHashes(ns, ids) == [k \in 1..Len(ids) |-> Node(ns, ids[k]).hash]

\* the first position (0-based) of id in children, or -1
IndexOfChild(children, id) ==
    IF \E k \in 1..Len(children) : children[k] = id
    THEN (CHOOSE k \in 1..Len(children) :
             children[k] = id /\ \A j \in 1..(k - 1) : children[j] # id) - 1
    ELSE -1

---------------------------------------------------------------------------
(* Build *)

\* Array.from(data).join(','): the decimal text of the bytes, one text per byte array
cacheKey(data) == data

cacheHas(cache, key) == \E e \in cache : e.key = key

cacheGet(cache, key) == (CHOOSE e \in cache : e.key = key).hash

\* getCachedHash: the digest returned and the cache it leaves
getCachedHash(cache, c, data) ==
    IF ~c.enableCaching
    THEN [hash |-> computeHash(data), cache |-> cache]
    ELSE IF cacheHas(cache, cacheKey(data))
    THEN [hash |-> cacheGet(cache, cacheKey(data)), cache |-> cache]
    ELSE [hash |-> computeHash(data),
          cache |-> IF Cardinality(cache) < c.maxCacheSize
                    THEN cache \cup {[key |-> cacheKey(data), hash |-> computeHash(data)]}
                    ELSE cache]

LeafNode(hash) == [hash |-> hash, children |-> <<>>, isLeaf |-> TRUE, parent |-> Null]

\* the loop over dataBlocks: acc holds nodes, leafData, current and the cache
RECURSIVE buildLeaves(_, _, _, _)
buildLeaves(dataBlocks, i, acc, c) ==
    IF i >= Len(dataBlocks)
    THEN acc
    ELSE LET d == dataBlocks[i + 1]
             r == getCachedHash(acc.cache, c, d)
         IN  buildLeaves(dataBlocks, i + 1,
                 [nodes    |-> Append(acc.nodes, LeafNode(r.hash)),
                  leafData |-> Append(acc.leafData, d),
                  current  |-> Append(acc.current, i),
                  cache    |-> r.cache], c)

\* a padding that repeats the last block instead of appending empty leaves
RECURSIVE padLeavesRepeatingLast(_)
padLeavesRepeatingLast(acc) ==
    IF Len(acc.current) % 3 = 0
    THEN acc
    ELSE LET last == acc.leafData[Len(acc.leafData)]
         IN  padLeavesRepeatingLast(
                 [nodes    |-> Append(acc.nodes, LeafNode(computeHash(last))),
                  leafData |-> Append(acc.leafData, last),
                  current  |-> Append(acc.current, Len(acc.nodes)),
                  cache    |-> acc.cache])

\* pad to divisible by 3
RECURSIVE padLeaves(_)
padLeaves(acc) ==
    IF Len(acc.current) % 3 = 0
    THEN acc
    ELSE padLeaves(
             [nodes    |-> Append(acc.nodes, LeafNode(computeHash(Empty))),
              leafData |-> Append(acc.leafData, Empty),
              current  |-> Append(acc.current, Len(acc.nodes)),
              cache    |-> acc.cache])

\* appendParent: the node array after the push and the children's parent assignments
appendParent(ns, chunk, parentHash) ==
    LET pid == Len(ns)
        pushed == Append(ns, [hash |-> parentHash, children |-> chunk,
                              isLeaf |-> FALSE, parent |-> Null])
    IN  [k \in 1..Len(pushed) |->
            IF \E j \in 1..Len(chunk) : chunk[j] = k - 1
            THEN [pushed[k] EXCEPT !.parent = pid]
            ELSE pushed[k]]

Min(a, b) == IF a < b THEN a ELSE b

\* arr.slice(i, j) with 0-based i (inclusive) and j (exclusive)
Slice(arr, i, j) == SubSeq(arr, i + 1, j)

RECURSIVE chunksFrom(_, _, _)
chunksFrom(arr, k, i) ==
    IF i >= Len(arr)
    THEN <<>>
    ELSE <<Slice(arr, i, Min(i + k, Len(arr)))>> \o chunksFrom(arr, k, i + k)

chunkBy(arr, k) == IF k <= 0 THEN <<arr>> ELSE chunksFrom(arr, k, 0)

\* the serial branch: one parent per slice of up to 3 ids, hashed as it is appended
RECURSIVE serialLayer(_, _, _, _)
serialLayer(ns, current, i, next) ==
    IF i >= Len(current)
    THEN [nodes |-> ns, next |-> next]
    ELSE LET chunk == Slice(current, i, Min(i + 3, Len(current)))
         IN  serialLayer(appendParent(ns, chunk, combineHashes(ChildHashes(ns, chunk))),
                         current, i + 3, Append(next, Len(ns)))

\* the parallel branch: every group is hashed first (precomp), then the parents are
\* appended in group order (precomp is sorted by i)
RECURSIVE appendPrecomp(_, _, _, _)
appendPrecomp(ns, precomp, k, next) ==
    IF k > Len(precomp)
    THEN [nodes |-> ns, next |-> next]
    ELSE appendPrecomp(appendParent(ns, precomp[k].chunk, precomp[k].hash),
                       precomp, k + 1, Append(next, Len(ns)))

parallelLayer(ns, current) ==
    LET chunks == chunkBy(current, 3)
        precomp == [k \in 1..Len(chunks) |->
                       [i |-> k - 1, chunk |-> chunks[k],
                        hash |-> combineHashes(ChildHashes(ns, chunks[k]))]]
    IN  appendPrecomp(ns, precomp, 1, <<>>)

\* bottom-up: while (current.length > 1)
RECURSIVE buildLayers(_, _, _)
buildLayers(ns, current, c) ==
    IF Len(current) <= 1
    THEN [nodes |-> ns, root |-> current[1]]
    ELSE LET r == IF c.parallelThreshold > 0 /\ Len(current) >= c.parallelThreshold
                  THEN parallelLayer(ns, current)
                  ELSE serialLayer(ns, current, 0, <<>>)
         IN  buildLayers(r.nodes, r.next, c)

\* build(dataBlocks) on an instance with the given cache and configuration
build(dataBlocks, cache, c) ==
    LET leaves == padLeaves(buildLeaves(dataBlocks, 0,
                      [nodes |-> <<>>, leafData |-> <<>>, current |-> <<>>,
                       cache |-> cache], c))
        top == buildLayers(leaves.nodes, leaves.current, c)
    IN  [nodes |-> top.nodes, leafData |-> leaves.leafData, rootID |-> top.root,
         leafCount |-> Len(dataBlocks), hashCache |-> leaves.cache]

\* the promises of the parallel branch: each async callback runs to its end when
\* map calls it, so every group's hash is taken from the nodes as they are then
precompute(ns, current) ==
    LET chunks == chunkBy(current, 3)
    IN  [k \in 1..Len(chunks) |->
            [i |-> k - 1, chunk |-> chunks[k],
             hash |-> combineHashes(ChildHashes(ns, chunks[k]))]]

\* the bottom-up loop up to its next await: it runs serial layers, and stops at
\* await Promise.all(promises) of a parallel layer or at the end of the loop
RECURSIVE layersToAwait(_, _, _)
layersToAwait(ns, current, c) ==
    IF Len(current) <= 1
    THEN [nodes |-> ns, done |-> TRUE, root |-> current[1], precomp |-> <<>>]
    ELSE IF c.parallelThreshold > 0 /\ Len(current) >= c.parallelThreshold
    THEN [nodes |-> ns, done |-> FALSE, root |-> Null,
          precomp |-> precompute(ns, current)]
    ELSE LET r == serialLayer(ns, current, 0, <<>>)
         IN  layersToAwait(r.nodes, r.next, c)

---------------------------------------------------------------------------
(* Update and batchUpdate *)

\* recomputeNodeHash; its ids come from parent fields, which build sets to ids of
\* the array, so its range check (id >= nodes.length) never throws
recomputeNodeHash(ns, id) ==
    IF Node(ns, id).isLeaf
    THEN ns
    ELSE [ns EXCEPT ![id + 1].hash =
             combineHashes(ChildHashes(ns, Node(ns, id).children))]

\* the parent chain of cur, nearest first: anc of updateAncestors
RECURSIVE parentChain(_, _)
parentChain(ns, current) ==
    IF Node(ns, current).parent = Null
    THEN <<>>
    ELSE <<Node(ns, current).parent>> \o parentChain(ns, Node(ns, current).parent)

\* for (let i = anc.length - 1; i >= 0; i--) recomputeNodeHash(anc[i])
RECURSIVE recomputeLoop(_, _, _)
recomputeLoop(ns, anc, i) ==
    IF i < 0
    THEN ns
    ELSE recomputeLoop(recomputeNodeHash(ns, anc[i + 1]), anc, i - 1)

updateAncestors(ns, cur) ==
    LET anc == parentChain(ns, cur)
    IN  recomputeLoop(ns, anc, Len(anc) - 1)

InvalidIndex(leafIndex, count) == leafIndex < 0 \/ leafIndex >= count

\* update(leafIndex, newData) on the tree (ns, ld, count)
update(ns, ld, count, leafIndex, newData) ==
    IF InvalidIndex(leafIndex, count)
    THEN [thrown |-> INVALID_INDEX, nodes |-> ns, leafData |-> ld]
    ELSE LET ns1 == [ns EXCEPT ![leafIndex + 1].hash = computeHash(newData)]
         IN  [thrown |-> NoThrow,
              nodes |-> updateAncestors(ns1, leafIndex),
              leafData |-> [ld EXCEPT ![leafIndex + 1] = newData]]

\* the "apply updates" loop over the map's entries, in iteration order
RECURSIVE applyUpdates(_, _, _, _)
applyUpdates(ns, ld, updateEntries, k) ==
    IF k > Len(updateEntries)
    THEN [nodes |-> ns, leafData |-> ld]
    ELSE LET e == updateEntries[k]
         IN  applyUpdates([ns EXCEPT ![e.idx + 1].hash = computeHash(e.data)],
                          [ld EXCEPT ![e.idx + 1] = e.data],
                          updateEntries, k + 1)

\* a Set<NodeID> keeps insertion order: add appends an id that is not yet in it
setAdd(set, id) ==
    IF \E k \in 1..Len(set) : set[k] = id THEN set ELSE Append(set, id)

RECURSIVE collectAncestors(_, _, _)
collectAncestors(ns, current, set) ==
    IF Node(ns, current).parent = Null
    THEN set
    ELSE collectAncestors(ns, Node(ns, current).parent,
                          setAdd(set, Node(ns, current).parent))

RECURSIVE collectAffected(_, _, _, _)
collectAffected(ns, updateEntries, k, affected) ==
    IF k > Len(updateEntries)
    THEN affected
    ELSE collectAffected(ns, updateEntries, k + 1,
                         collectAncestors(ns, updateEntries[k].idx, affected))

\* the queue sweep: shift an id, skip it when seen, else recompute it, mark it
\* seen and push its parent
RECURSIVE sweep(_, _, _)
sweep(ns, queue, seen) ==
    IF Len(queue) = 0
    THEN ns
    ELSE LET id == Head(queue)
             rest == Tail(queue)
         IN  IF id \in seen
             THEN sweep(ns, rest, seen)
             ELSE LET ns1 == recomputeNodeHash(ns, id)
                      parent == Node(ns1, id).parent
                  IN  sweep(ns1,
                            IF parent # Null THEN Append(rest, parent) ELSE rest,
                            seen \cup {id})

\* batchUpdate past its validation: the "apply updates" loop, the collection of
\* the affected ancestors and the queue sweep
batchApply(ns, ld, updateEntries) ==
    LET applied == applyUpdates(ns, ld, updateEntries, 1)
        affected == collectAffected(applied.nodes, updateEntries, 1, <<>>)
    IN  [thrown |-> NoThrow,
         nodes |-> sweep(applied.nodes, affected, {}),
         leafData |-> applied.leafData]

\* the place (from 1) of the first entry of a map whose index is out of range, or
\* 0 when every index is in range: what lastMut keeps of a batchUpdate's argument
FirstInvalid(updateEntries, count) ==
    IF \E k \in 1..Len(updateEntries) : InvalidIndex(updateEntries[k].idx, count)
    THEN CHOOSE k \in 1..Len(updateEntries) :
             /\ InvalidIndex(updateEntries[k].idx, count)
             /\ \A j \in 1..(k - 1) : ~InvalidIndex(updateEntries[j].idx, count)
    ELSE 0

\* a batchUpdate that checks each index as it applies the entry: the entries before
\* the first bad index are written before the call throws
batchUpdateCheckingLate(ns, ld, count, updateEntries) ==
    LET bad == FirstInvalid(updateEntries, count)
    IN  IF bad # 0
        THEN LET applied == applyUpdates(ns, ld, SubSeq(updateEntries, 1, bad - 1), 1)
             IN  [thrown |-> INVALID_INDEX, nodes |-> applied.nodes,
                  leafData |-> applied.leafData]
        ELSE batchApply(ns, ld, updateEntries)

\* batchUpdate(updates): updateEntries is Array.from(updates.entries())
batchUpdate(ns, ld, count, updateEntries) ==
    IF \E k \in 1..Len(updateEntries) : InvalidIndex(updateEntries[k].idx, count)
    THEN [thrown |-> INVALID_INDEX, nodes |-> ns, leafData |-> ld]
    ELSE batchApply(ns, ld, updateEntries)

---------------------------------------------------------------------------
(* Proofs *)

\* a sibling loop that stops at the node's own position instead of skipping it
RECURSIVE levelSiblingsUpToSelf(_, _, _, _)
levelSiblingsUpToSelf(ns, children, pos, i) ==
    IF i >= Len(children) \/ i = pos
    THEN <<>>
    ELSE <<[pos |-> i, hash |-> Node(ns, children[i + 1]).hash]>>
         \o levelSiblingsUpToSelf(ns, children, pos, i + 1)

\* the siblings pushed at one level: every child of the parent but position pos
RECURSIVE levelSiblings(_, _, _, _)
levelSiblings(ns, children, pos, i) ==
    IF i >= Len(children)
    THEN <<>>
    ELSE (IF i = pos
          THEN <<>>
          ELSE <<[pos |-> i, hash |-> Node(ns, children[i + 1]).hash]>>)
         \o levelSiblings(ns, children, pos, i + 1)

\* the while (true) loop of generateProofInternal
RECURSIVE proofWalk(_, _, _, _)
proofWalk(ns, cur, sibs, path) ==
    IF ~IsNodeId(ns, cur)
    THEN [thrown |-> TYPE_ERROR, siblingHashes |-> sibs, pathLength |-> path]
    ELSE IF Node(ns, cur).parent = Null
    THEN [thrown |-> NoThrow, siblingHashes |-> sibs, pathLength |-> path]
    ELSE LET pid == Node(ns, cur).parent
             parent == Node(ns, pid)
             pos == IndexOfChild(parent.children, cur)
         IN  IF pos < 0
             THEN [thrown |-> MISSING_PARENT, siblingHashes |-> sibs, pathLength |-> path]
             ELSE proofWalk(ns, pid,
                            sibs \o levelSiblings(ns, parent.children, pos, 0),
                            path + 1)

\* generateProofInternal: what it throws, and the proof it returns when it does not
generateProofInternal(ns, leafIndex) ==
    LET w == proofWalk(ns, leafIndex, <<>>, 0)
    IN  [thrown |-> w.thrown,
         proof |-> [leafIndex |-> leafIndex, siblingHashes |-> w.siblingHashes,
                    pathLength |-> w.pathLength]]

\* the inner loop of verifyProofInternal: need siblings are taken from the proof
\* and stored at their claimed positions
RECURSIVE takeSiblings(_, _, _, _, _, _)
takeSiblings(proof, childHashes, pos, i, need, si) ==
    IF i >= need
    THEN [fail |-> FALSE, childHashes |-> childHashes, si |-> si]
    ELSE IF si >= Len(proof.siblingHashes)
    THEN [fail |-> TRUE, childHashes |-> childHashes, si |-> si]
    ELSE LET sh == proof.siblingHashes[si + 1]
         IN  IF sh.pos = pos \/ sh.pos < 0 \/ sh.pos >= Len(childHashes)
             THEN [fail |-> TRUE, childHashes |-> childHashes, si |-> si + 1]
             ELSE takeSiblings(proof, [childHashes EXCEPT ![sh.pos + 1] = sh.hash],
                               pos, i + 1, need, si + 1)

\* the for (step) loop of verifyProofInternal and its final comparison
RECURSIVE verifySteps(_, _, _, _, _, _, _)
verifySteps(ns, proof, root, step, curID, curHash, si) ==
    IF step >= proof.pathLength
    THEN [thrown |-> NoThrow,
          value |-> si = Len(proof.siblingHashes)
                    /\ hashesEqual(curHash, Node(ns, root).hash)]
    ELSE IF ~IsNodeId(ns, curID)
    THEN [thrown |-> TYPE_ERROR, value |-> FALSE]    \* n is undefined: n.parent throws
    ELSE IF Node(ns, curID).parent = Null
    THEN [thrown |-> NoThrow, value |-> FALSE]
    ELSE LET pid == Node(ns, curID).parent
             parent == Node(ns, pid)
             pos == IndexOfChild(parent.children, curID)
         IN  IF pos < 0
             THEN [thrown |-> NoThrow, value |-> FALSE]
             ELSE LET holes == [k \in 1..Len(parent.children) |-> Undefined]
                      t == takeSiblings(proof, [holes EXCEPT ![pos + 1] = curHash],
                                        pos, 0, Len(parent.children) - 1, si)
                  IN  IF t.fail
                      THEN [thrown |-> NoThrow, value |-> FALSE]
                      ELSE IF combineThrows(t.childHashes)
                      THEN [thrown |-> TYPE_ERROR, value |-> FALSE]
                      ELSE verifySteps(ns, proof, root, step + 1, pid,
                                       combineHashes(t.childHashes), t.si)

verifyProofInternal(ns, proof, leafHash, root) ==
    verifySteps(ns, proof, root, 0, proof.leafIndex, leafHash, 0)

\* generateProof(leafIndex)
generateProof(ns, count, leafIndex) ==
    IF InvalidIndex(leafIndex, count)
    THEN [thrown |-> INVALID_INDEX, proof |-> Null]
    ELSE generateProofInternal(ns, leafIndex)

\* verifyProof(proof, data): the pair [ok, err] it returns, or what it throws
verifyProof(ns, root, proof, data) ==
    IF root = Null
    THEN [thrown |-> NoThrow, ok |-> FALSE, err |-> UNINITIALIZED]
    ELSE LET r == verifyProofInternal(ns, proof, computeHash(data), root)
         IN  [thrown |-> r.thrown, ok |-> r.value, err |-> NoError]

\* verify(leafIndex, data): the pair [ok, err] it returns; it throws nothing, the
\* proof stage runs inside try/catch
verify(ns, root, count, leafIndex, data) ==
    IF InvalidIndex(leafIndex, count)
    THEN [thrown |-> NoThrow, ok |-> FALSE, err |-> INVALID_INDEX]
    ELSE IF root = Null
    THEN [thrown |-> NoThrow, ok |-> FALSE, err |-> UNINITIALIZED]
    ELSE IF ~hashesEqual(Node(ns, leafIndex).hash, computeHash(data))
    THEN [thrown |-> NoThrow, ok |-> FALSE, err |-> NoError]
    ELSE LET g == generateProofInternal(ns, leafIndex)
             v == verifyProofInternal(ns, g.proof, computeHash(data), root)
         IN  IF g.thrown # NoThrow
             THEN [thrown |-> NoThrow, ok |-> FALSE, err |-> g.thrown]
             ELSE IF v.thrown # NoThrow
             THEN [thrown |-> NoThrow, ok |-> FALSE, err |-> v.thrown]
             ELSE [thrown |-> NoThrow, ok |-> v.value, err |-> NoError]

---------------------------------------------------------------------------
(* Serialization *)

\* Array.from(bytes): a number[] holding the bytes' values
ArrayFrom(bytes) == [nums |-> bytes]

\* new Uint8Array(numbers): the bytes of a number[] (each already in 0..255)
Uint8ArrayOf(numbers) == numbers.nums

\* JSON.stringify / JSON.parse of a blob of numbers, arrays, booleans and nulls:
\* the text of the blob, and the blob of a text
JSONstringify(blob) == [json |-> blob]
JSONparse(text) == text.json

\* serialize(): the JSON text
serialize(ns, ld, root, count) ==
    JSONstringify(
        [nodes |-> [k \in 1..Len(ns) |->
                       [id |-> k - 1,
                        hash |-> ArrayFrom(<<ns[k].hash>>),
                        children |-> ns[k].children,
                        isLeaf |-> ns[k].isLeaf,
                        parent |-> ns[k].parent]],
         leafData |-> [k \in 1..Len(ld) |-> ArrayFrom(ld[k])],
         rootID |-> root,
         leafCount |-> count])

\* a deserialize that restores no parent references
deserializeWithoutParents(data, c) ==
    LET blob == JSONparse(data)
    IN  [nodes |-> [k \in 1..Len(blob.nodes) |->
                       [hash |-> Uint8ArrayOf(blob.nodes[k].hash)[1],
                        children |-> blob.nodes[k].children,
                        isLeaf |-> blob.nodes[k].isLeaf,
                        parent |-> Null]],
         leafData |-> [k \in 1..Len(blob.leafData) |-> Uint8ArrayOf(blob.leafData[k])],
         rootID |-> blob.rootID,
         leafCount |-> blob.leafCount,
         hashCache |-> {},
         cfg |-> c]

\* deserialize(data, cfg): the fields of the tree it returns
deserialize(data, c) ==
    LET blob == JSONparse(data)
    IN  [nodes |-> [k \in 1..Len(blob.nodes) |->
                       [hash |-> Uint8ArrayOf(blob.nodes[k].hash)[1],
                        children |-> blob.nodes[k].children,
                        isLeaf |-> blob.nodes[k].isLeaf,
                        parent |-> blob.nodes[k].parent]],
         leafData |-> [k \in 1..Len(blob.leafData) |-> Uint8ArrayOf(blob.leafData[k])],
         rootID |-> blob.rootID,
         leafCount |-> blob.leafCount,
         hashCache |-> {},
         cfg |-> c]

\* getRootHash(): [hash, ok]
getRootHash(ns, root) ==
    IF root = Null THEN [hash |-> Null, ok |-> FALSE]
    ELSE [hash |-> Node(ns, root).hash, ok |-> TRUE]

getLeafCount(count) == count

---------------------------------------------------------------------------
(* Inputs *)

\* every block sequence over Data of length 1..MaxBlocks
BlockSeqs == UNION {[1..n -> Data] : n \in 1..MaxBlocks}

\* longer block sequences, up to MaxBigBlocks: all BlockA, or BlockB first or last
BigBlockSeqs ==
    UNION {{[k \in 1..n |-> IF k = j THEN BlockB ELSE BlockA] : j \in {0, 1, n}} :
              n \in (MaxBlocks + 1)..MaxBigBlocks}

\* leaf indices a caller passes: the valid ones, and one on either side
Indices == (-1)..leafCount

\* a Map<number, Uint8Array> as Array.from(updates.entries()): entries with
\* distinct keys, in iteration order; the maps of no, one and two entries
EntryLists ==
    {<<>>}
    \cup {<<[idx |-> i, data |-> d]>> : i \in Indices, d \in Data}
    \cup {<<[idx |-> i, data |-> d], [idx |-> j, data |-> e]>> :
             i \in Indices, j \in Indices, d \in Data, e \in Data}

UpdateMaps == {e \in EntryLists : Len(e) = 2 => e[1].idx # e[2].idx}

\* digests a forger may put into a proof
HashPool == {computeHash(d) : d \in Data \cup {Empty}}
            \cup {computeHash(<<computeHash(Empty), computeHash(Empty), computeHash(Empty)>>)}

\* the proofs a caller passes for leaf i: the generated one, and that one with one
\* sibling hash or position replaced, a sibling dropped, repeated or added, another
\* leafIndex, another pathLength
ProofsFor(i) ==
    LET p == generateProofInternal(nodes, i).proof
        n == Len(p.siblingHashes)
    IN  {p}
        \cup {[p EXCEPT !.siblingHashes[k].hash = h] : k \in 1..n, h \in HashPool}
        \cup {[p EXCEPT !.siblingHashes[k].pos = q] : k \in 1..n, q \in (-1)..3}
        \cup {[p EXCEPT !.siblingHashes = SubSeq(p.siblingHashes, 1, n - 1)] : k \in 1..n}
        \cup {[p EXCEPT !.siblingHashes = Append(p.siblingHashes, s)] :
                 s \in {[pos |-> 0, hash |-> computeHash(Empty)]}
                       \cup {p.siblingHashes[k] : k \in 1..n}}
        \cup {[p EXCEPT !.leafIndex = j] : j \in (-1)..Len(nodes)}
        \cup {[p EXCEPT !.pathLength = l] : l \in {p.pathLength - 1, p.pathLength + 1}}

ProofInputs ==
    IF rootID = Null
    THEN {[leafIndex |-> 0, siblingHashes |-> <<>>, pathLength |-> l] : l \in {0, 1}}
    ELSE UNION {ProofsFor(i) : i \in 0..(leafCount - 1)}

\* the calls of a caller who presents a node that is no logical leaf, a padding
\* leaf or an internal node, as the leaf: the siblings on that node's way to the
\* root, with the empty block or the node's child hashes, byte after byte, as data
NodeProofCalls ==
    {<<generateProofInternal(nodes, id).proof, d>> :
        id \in leafCount..(Len(nodes) - 1),
        d \in {Empty} \cup {ChildHashes(nodes, Node(nodes, k).children) :
                                k \in 0..(Len(nodes) - 1)}}

\* the (proof, data) pairs passed to verifyProof
ProofCalls == (ProofInputs \X Data) \cup NodeProofCalls

---------------------------------------------------------------------------
(* The state machine.  A read-only call (verify, generateProof, verifyProof,      *)
(* serialize) assigns no field of the tree, and a mutating call that throws is     *)
(* checked below to have assigned none, so what can follow such a call is what     *)
(* can follow without it: a behaviour is a sequence of mutating calls that         *)
(* complete, followed by at most one call that throws or only reads.  A build      *)
(* discards nodes, leafData, rootID and leafCount and reads none of them, so a     *)
(* build after updates leads where a build before them leads: builds are taken     *)
(* before the updates.                                                             *)

NoQuery == [op |-> "none"]

\* no build call is suspended
NoBuild == [phase |-> "none"]

\* no call has thrown or only read yet
Running == lastQuery = NoQuery /\ lastMut.thrown = NoThrow

\* new TernaryMeshTree(c)
New(c) ==
    /\ nodes = <<>>
    /\ leafData = <<>>
    /\ rootID = Null
    /\ leafCount = 0
    /\ hashCache = {}
    /\ cfg = c
    /\ lastMut = [op |-> "new", thrown |-> NoThrow]
    /\ lastQuery = NoQuery
    /\ updates = 0
    /\ pending = NoBuild

\* new TernaryMeshTree(cfg), for the default and for the small configuration
Init == \E c \in Configs : New(c)

\* build(dataBlocks)
BuildOf(dataBlocks) ==
    /\ Len(dataBlocks) = 0 \/ updates = 0
    /\ IF Len(dataBlocks) = 0
       THEN /\ lastMut' = [op |-> "build", thrown |-> EMPTY_DATA, dataBlocks |-> dataBlocks]
            /\ UNCHANGED <<nodes, leafData, rootID, leafCount, hashCache, updates>>
       ELSE LET t == build(dataBlocks, hashCache, cfg)
            IN  /\ nodes' = t.nodes
                /\ leafData' = t.leafData
                /\ rootID' = t.rootID
                /\ leafCount' = t.leafCount
                /\ hashCache' = t.hashCache
                /\ updates' = 0
                /\ lastMut' = [op |-> "build", thrown |-> NoThrow, dataBlocks |-> dataBlocks]
    /\ UNCHANGED <<cfg, lastQuery, pending>>

\* build on an empty or a short block sequence
Build ==
    /\ Running
    /\ \E dataBlocks \in BlockSeqs \cup {<<>>} : BuildOf(dataBlocks)

\* build on a short or a longer block sequence
BuildBig ==
    /\ Running
    /\ \E dataBlocks \in BlockSeqs \cup BigBlockSeqs : BuildOf(dataBlocks)

\* update(leafIndex, newData)
Update ==
    /\ Running
    /\ updates < MaxUpdates
    /\ \E leafIndex \in Indices, newData \in Data :
           LET r == update(nodes, leafData, leafCount, leafIndex, newData)
           IN  /\ nodes' = r.nodes
               /\ leafData' = r.leafData
               /\ updates' = IF r.thrown = NoThrow THEN updates + 1 ELSE updates
               /\ lastMut' = [op |-> "update", thrown |-> r.thrown,
                              leafIndex |-> leafIndex, newData |-> newData,
                              oldData |-> IF r.thrown = NoThrow
                                          THEN leafData[leafIndex + 1] ELSE Empty]
    /\ UNCHANGED <<rootID, leafCount, hashCache, cfg, lastQuery, pending>>

\* batchUpdate(updates)
BatchUpdate ==
    /\ Running
    /\ updates < MaxUpdates
    /\ \E updateEntries \in UpdateMaps :
           LET r == batchUpdate(nodes, leafData, leafCount, updateEntries)
           IN  /\ nodes' = r.nodes
               /\ leafData' = r.leafData
               /\ updates' = IF r.thrown = NoThrow THEN updates + 1 ELSE updates
               /\ lastMut' = [op |-> "batchUpdate", thrown |-> r.thrown,
                              badAt |-> FirstInvalid(updateEntries, leafCount)]
    /\ UNCHANGED <<rootID, leafCount, hashCache, cfg, lastQuery, pending>>

\* verify(leafIndex, data)
Verify ==
    /\ Running
    /\ \E leafIndex \in Indices, data \in Data \cup {Empty} :
           lastQuery' = [op |-> "verify", leafIndex |-> leafIndex, data |-> data,
                         ret |-> verify(nodes, rootID, leafCount, leafIndex, data)]
    /\ UNCHANGED <<nodes, leafData, rootID, leafCount, hashCache, cfg, lastMut, updates,
                 pending>>

\* generateProof(leafIndex)
GenerateProof ==
    /\ Running
    /\ \E leafIndex \in Indices :
           lastQuery' = [op |-> "generateProof", leafIndex |-> leafIndex,
                         ret |-> generateProof(nodes, leafCount, leafIndex)]
    /\ UNCHANGED <<nodes, leafData, rootID, leafCount, hashCache, cfg, lastMut, updates,
                 pending>>

\* verifyProof(proof, data)
VerifyProof ==
    /\ Running
    /\ \E call \in ProofCalls :
           lastQuery' = [op |-> "verifyProof", proof |-> call[1], data |-> call[2],
                         ret |-> verifyProof(nodes, rootID, call[1], call[2])]
    /\ UNCHANGED <<nodes, leafData, rootID, leafCount, hashCache, cfg, lastMut, updates,
                 pending>>

\* TernaryMeshTree.deserialize(tree.serialize(), defaultConfig()), as in selfTest
SerializeDeserialize ==
    /\ Running
    /\ lastQuery' = [op |-> "serialize",
                     ret |-> deserialize(serialize(nodes, leafData, rootID, leafCount),
                                         defaultConfig)]
    /\ UNCHANGED <<nodes, leafData, rootID, leafCount, hashCache, cfg, lastMut, updates,
                 pending>>

\* builds, updates, verify and the serialization round trip on small trees
Next ==
    \/ Build
    \/ Update
    \/ BatchUpdate
    \/ Verify
    \/ SerializeDeserialize

Spec == Init /\ [][Next]_vars

\* builds of small and of taller trees, and the read-only calls on them
NextProof ==
    \/ BuildBig
    \/ Verify
    \/ GenerateProof
    \/ VerifyProof

SpecProof == Init /\ [][NextProof]_vars

\* build(dataBlocks) up to its first await: the empty check, the reset of the old
\* state, and the call of getCachedHash for block 0, whose promise build awaits
BuildStart ==
    /\ Running
    /\ pending = NoBuild
    /\ \E dataBlocks \in BlockSeqs \cup BigBlockSeqs \cup {<<>>} :
          IF Len(dataBlocks) = 0
          THEN /\ lastMut' = [op |-> "build", thrown |-> EMPTY_DATA,
                              dataBlocks |-> dataBlocks]
               /\ UNCHANGED <<nodes, leafData, rootID, leafCount, hashCache, pending>>
          ELSE LET g == getCachedHash(hashCache, cfg, dataBlocks[1])
               IN  /\ nodes' = <<>>
                   /\ leafData' = <<>>
                   /\ leafCount' = Len(dataBlocks)
                   /\ rootID' = Null
                   /\ hashCache' = g.cache
                   /\ pending' = [phase |-> "leaf", dataBlocks |-> dataBlocks,
                                  i |-> 0, h |-> g.hash, current |-> <<>>,
                                  precomp |-> <<>>]
                   /\ UNCHANGED lastMut
    /\ UNCHANGED <<cfg, lastQuery, updates>>

\* the rest of build from the bottom-up loop on, with the leaf layer in place: to
\* the await of a parallel layer, or to the assignment of rootID
BuildLayersFrom(ns, current) ==
    LET r == layersToAwait(ns, current, cfg)
    IN  /\ nodes' = r.nodes
        /\ IF r.done
           THEN /\ rootID' = r.root
                /\ pending' = NoBuild
                /\ lastMut' = [op |-> "build", thrown |-> NoThrow,
                               dataBlocks |-> pending.dataBlocks]
           ELSE /\ pending' = [pending EXCEPT !.phase = "join", !.precomp = r.precomp]
                /\ UNCHANGED <<rootID, lastMut>>

\* build resumed after await this.getCachedHash(d): the leaf is pushed, and the
\* loop goes on to the next block's await, or past the padding into the layers
BuildAfterLeafHash ==
    /\ lastQuery = NoQuery
    /\ pending.phase = "leaf"
    /\ LET d == pending.dataBlocks[pending.i + 1]
           acc == [nodes    |-> Append(nodes, LeafNode(pending.h)),
                   leafData |-> Append(leafData, d),
                   current  |-> Append(pending.current, pending.i),
                   cache    |-> hashCache]
       IN  IF pending.i + 1 < Len(pending.dataBlocks)
           THEN LET g == getCachedHash(hashCache, cfg, pending.dataBlocks[pending.i + 2])
                IN  /\ nodes' = acc.nodes
                    /\ leafData' = acc.leafData
                    /\ hashCache' = g.cache
                    /\ pending' = [pending EXCEPT !.i = pending.i + 1, !.h = g.hash,
                                                  !.current = acc.current]
                    /\ UNCHANGED <<rootID, lastMut>>
           ELSE LET leaves == padLeaves(acc)
                IN  /\ leafData' = leaves.leafData
                    /\ BuildLayersFrom(leaves.nodes, leaves.current)
                    /\ UNCHANGED hashCache
    /\ UNCHANGED <<leafCount, cfg, lastQuery, updates>>

\* build resumed after await Promise.all(promises): the precomputed parents are
\* appended in group order, and the loop goes on with the next layer
BuildAfterJoin ==
    /\ lastQuery = NoQuery
    /\ pending.phase = "join"
    /\ LET r == appendPrecomp(nodes, pending.precomp, 1, <<>>)
       IN  BuildLayersFrom(r.nodes, r.next)
    /\ UNCHANGED <<leafData, leafCount, hashCache, cfg, lastQuery, updates>>

\* build as the event loop runs it, with the calls other callers make on the
\* instance between its awaits
NextAsync ==
    \/ BuildStart
    \/ BuildAfterLeafHash
    \/ BuildAfterJoin
    \/ Verify
    \/ GenerateProof

SpecAsync == Init /\ [][NextAsync]_vars

---------------------------------------------------------------------------
(* Claims *)

\* the blocks the tree stands for: the leaf data of the logical leaves
Blocks == SubSeq(leafData, 1, leafCount)

\* a fresh build, on a new instance, over the given blocks
FreshBuild(dataBlocks) == build(dataBlocks, {}, cfg)

RootHashOf(t) == getRootHash(t.nodes, t.rootID).hash

NodeHashes(ns) == [k \in 1..Len(ns) |-> ns[k].hash]

Built == lastMut.op = "build" /\ lastMut.thrown = NoThrow

\* C1: after update(i, d) on a tree built from a block sequence, the root hash is
\* the root hash of a fresh build over the sequence with block i replaced by d.
C1_UpdateRootIsFreshRoot ==
    (lastMut.op = "update" /\ lastMut.thrown = NoThrow /\ updates = 1)
        => getRootHash(nodes, rootID).hash = RootHashOf(FreshBuild(Blocks))

\* C2: after batchUpdate on a built tree, the node hashes and the root hash are
\* those of a fresh build over the resulting leaf contents.
C2_BatchIsFreshBuild ==
    (lastMut.op = "batchUpdate" /\ lastMut.thrown = NoThrow /\ updates = 1
     /\ rootID # Null)
        => /\ NodeHashes(nodes) = NodeHashes(FreshBuild(Blocks).nodes)
           /\ getRootHash(nodes, rootID).hash = RootHashOf(FreshBuild(Blocks))

\* C3: after update(i, new) with new # old on a built tree, verify(i, new) returns
\* [true, null] and verify(i, old) returns [false, null].
C3_VerifyAfterUpdate ==
    (/\ lastQuery.op = "verify"
     /\ lastMut.op = "update" /\ lastMut.thrown = NoThrow /\ updates = 1
     /\ lastMut.newData # lastMut.oldData
     /\ lastQuery.leafIndex = lastMut.leafIndex)
        => /\ lastQuery.data = lastMut.newData
                => lastQuery.ret = [thrown |-> NoThrow, ok |-> TRUE, err |-> NoError]
           /\ lastQuery.data = lastMut.oldData
                => lastQuery.ret = [thrown |-> NoThrow, ok |-> FALSE, err |-> NoError]

\* C4: directly after a successful build, verify(i, x) for a valid index i returns
\* [true, null] when x is block i and [false, null] when it is not.
C4_VerifyAfterBuild ==
    (/\ lastQuery.op = "verify"
     /\ Built
     /\ ~InvalidIndex(lastQuery.leafIndex, Len(lastMut.dataBlocks)))
        => lastQuery.ret =
               [thrown |-> NoThrow,
                ok |-> (lastQuery.data = lastMut.dataBlocks[lastQuery.leafIndex + 1]),
                err |-> NoError]

\* C4 witness: the last block of a tree of MaxBigBlocks blocks, verified against
\* its own content and accepted
C4_Witness ==
    /\ lastQuery.op = "verify"
    /\ Built
    /\ leafCount = MaxBigBlocks
    /\ lastQuery.leafIndex = MaxBigBlocks - 1
    /\ lastQuery.data = BlockB
    /\ lastMut.dataBlocks[MaxBigBlocks] = BlockB
    /\ lastQuery.ret.ok

\* p is q with exactly one sibling hash replaced by a different hash
OneHashReplaced(p, q) ==
    /\ p.leafIndex = q.leafIndex
    /\ p.pathLength = q.pathLength
    /\ Len(p.siblingHashes) = Len(q.siblingHashes)
    /\ \A k \in 1..Len(q.siblingHashes) : p.siblingHashes[k].pos = q.siblingHashes[k].pos
    /\ Cardinality({k \in 1..Len(q.siblingHashes) :
                       p.siblingHashes[k].hash # q.siblingHashes[k].hash}) = 1

\* C5: directly after a successful build, verifyProof(generateProof(i), block i)
\* returns [true, null], and verifyProof returns false for generateProof(i) with
\* exactly one sibling hash replaced by a different hash.
C5_ProofRoundTrip ==
    (lastQuery.op = "verifyProof" /\ Built)
        => \A i \in 0..(leafCount - 1) :
              LET g == generateProof(nodes, leafCount, i)
              IN  /\ g.thrown = NoThrow
                  /\ (lastQuery.proof = g.proof /\ lastQuery.data = lastMut.dataBlocks[i + 1])
                        => lastQuery.ret = [thrown |-> NoThrow, ok |-> TRUE, err |-> NoError]
                  /\ OneHashReplaced(lastQuery.proof, g.proof)
                        => lastQuery.ret = [thrown |-> NoThrow, ok |-> FALSE, err |-> NoError]

\* C5 witness: a proof with one replaced sibling hash, tried with the leaf's own
\* block on a tree of MaxBigBlocks blocks, and refused
C5_Witness ==
    /\ lastQuery.op = "verifyProof"
    /\ Built
    /\ leafCount = MaxBigBlocks
    /\ \E i \in 0..(leafCount - 1) :
          /\ OneHashReplaced(lastQuery.proof, generateProof(nodes, leafCount, i).proof)
          /\ lastQuery.data = lastMut.dataBlocks[i + 1]
          /\ lastQuery.proof.pathLength = 3
    /\ ~lastQuery.ret.ok

\* C6: on a built tree, batchUpdate ends with the same root hash for either
\* iteration order of a two-entry map.
C6_BatchOrderIndependent ==
    (Running /\ rootID # Null)
        => \A e \in UpdateMaps :
              (Len(e) = 2 /\ FirstInvalid(e, leafCount) = 0)
                  => LET r1 == batchUpdate(nodes, leafData, leafCount, e)
                         r2 == batchUpdate(nodes, leafData, leafCount, <<e[2], e[1]>>)
                     IN  getRootHash(r1.nodes, rootID).hash = getRootHash(r2.nodes, rootID).hash

C8_FailedCallChangesNothing ==
    [][/\ lastMut'.thrown # NoThrow
          => <<nodes, leafData, rootID, leafCount>>' = <<nodes, leafData, rootID, leafCount>>
       /\ (lastMut' # lastMut /\ lastMut'.op = "build" /\ Len(lastMut'.dataBlocks) = 0)
          => lastMut'.thrown = EMPTY_DATA
       /\ (lastMut' # lastMut /\ lastMut'.op = "update"
           /\ InvalidIndex(lastMut'.leafIndex, leafCount))
          => lastMut'.thrown = INVALID_INDEX
       /\ (lastMut' # lastMut /\ lastMut'.op = "batchUpdate" /\ lastMut'.badAt # 0)
          => lastMut'.thrown = INVALID_INDEX]_vars

\* C8 witness: a batchUpdate whose second entry is out of range, refused on a tree
\* that was built and updated
C8_Witness ==
    /\ lastMut.op = "batchUpdate"
    /\ lastMut.thrown = INVALID_INDEX
    /\ lastMut.badAt = 2
    /\ rootID # Null
    /\ updates > 0

\* what makes a proof structurally malformed for the tree: a leafIndex that names
\* no node, or at some level too few siblings, a sibling position out of range or
\* equal to the current node's, two siblings at one position, or siblings left over
RECURSIVE MalformedFrom(_, _, _, _, _)
MalformedFrom(ns, p, step, curID, si) ==
    IF ~IsNodeId(ns, curID)
    THEN TRUE
    ELSE IF step >= p.pathLength
    THEN si # Len(p.siblingHashes)
    ELSE IF Node(ns, curID).parent = Null
    THEN FALSE
    ELSE LET pid == Node(ns, curID).parent
             width == Len(Node(ns, pid).children)
             pos == IndexOfChild(Node(ns, pid).children, curID)
             level == SubSeq(p.siblingHashes, si + 1,
                             Min(si + width - 1, Len(p.siblingHashes)))
         IN  \/ Len(level) < width - 1
             \/ \E k \in 1..Len(level) :
                   level[k].pos = pos \/ level[k].pos < 0 \/ level[k].pos >= width
             \/ \E j, k \in 1..Len(level) : j # k /\ level[j].pos = level[k].pos
             \/ MalformedFrom(ns, p, step + 1, pid, si + width - 1)

Malformed(p) == MalformedFrom(nodes, p, 0, p.leafIndex, 0)

\* C9: on a built tree, verifyProof of a structurally malformed proof returns
\* [false, null]: it neither throws nor returns true.
C9_MalformedProofIsRefused ==
    (lastQuery.op = "verifyProof" /\ rootID # Null /\ Malformed(lastQuery.proof))
        => lastQuery.ret = [thrown |-> NoThrow, ok |-> FALSE, err |-> NoError]

\* C10: on an instance on which no build has succeeded, verify, generateProof and
\* verifyProof report the uninitialized-tree error.
C10_UnbuiltReportsUninitialized ==
    (rootID = Null /\ lastQuery.op \in {"verify", "generateProof", "verifyProof"})
        => \/ lastQuery.ret.thrown = UNINITIALIZED
           \/ (lastQuery.op # "generateProof" /\ lastQuery.ret.thrown = NoThrow
               /\ lastQuery.ret.err = UNINITIALIZED)

\* the smallest multiple of 3 that is >= n
PaddedLength(n) == 3 * ((n + 2) \div 3)

\* the leaf layer of a tree of n blocks: the first PaddedLength(n) nodes are the
\* leaves and no other node is one, and the leaves from n on are padding
LeafLayerPadded(ns, ld, n) ==
    /\ Len(ld) = PaddedLength(n)
    /\ {k \in 1..Len(ns) : ns[k].isLeaf} = 1..PaddedLength(n)
    /\ \A k \in (n + 1)..PaddedLength(n) :
          /\ ld[k] = Empty
          /\ ns[k].hash = computeHash(Empty)
          /\ ns[k].children = <<>>

\* C11: after a successful build of n >= 1 blocks the leaf layer holds the smallest
\* multiple of 3 >= n leaves, those from n on are empty padding leaves with the
\* hash of the empty byte sequence, and getLeafCount() is n; update and batchUpdate
\* leave leafCount and the padded leaf layer as they are.
C11_LeafLayerPadded ==
    [][/\ (lastMut' # lastMut /\ lastMut'.op = "build" /\ lastMut'.thrown = NoThrow)
          => /\ getLeafCount(leafCount') = Len(lastMut'.dataBlocks)
             /\ LeafLayerPadded(nodes', leafData', Len(lastMut'.dataBlocks))
       /\ (lastMut' # lastMut /\ lastMut'.op \in {"update", "batchUpdate"} /\ rootID # Null)
          => /\ getLeafCount(leafCount') = getLeafCount(leafCount)
             /\ LeafLayerPadded(nodes', leafData', leafCount)]_vars

\* C11 witness: a tree of MaxBlocks blocks with padding leaves, after MaxUpdates
\* updates of which the last rewrote the last block
C11_Witness ==
    /\ rootID # Null
    /\ updates = MaxUpdates
    /\ getLeafCount(leafCount) = MaxBlocks
    /\ Len(leafData) > MaxBlocks
    /\ lastMut.op = "update" /\ lastMut.thrown = NoThrow
    /\ lastMut.leafIndex = MaxBlocks - 1
    /\ leafData[Len(leafData)] = Empty

\* the ids from a node up to the root, the node first
RECURSIVE PathToRoot(_, _)
PathToRoot(ns, id) ==
    IF Node(ns, id).parent = Null
    THEN <<id>>
    ELSE <<id>> \o PathToRoot(ns, Node(ns, id).parent)

\* the children of pid other than cur, each with its position and its hash, in
\* ascending position order
SiblingsUnder(ns, pid, cur) ==
    LET children == Node(ns, pid).children
        all == [k \in 1..Len(children) |->
                   [pos |-> k - 1, hash |-> Node(ns, children[k]).hash]]
        NotCur(e) == children[e.pos + 1] # cur
    IN  SelectSeq(all, NotCur)

RECURSIVE SiblingsAlong(_, _, _)
SiblingsAlong(ns, path, k) ==
    IF k >= Len(path)
    THEN <<>>
    ELSE SiblingsUnder(ns, path[k + 1], path[k]) \o SiblingsAlong(ns, path, k + 1)

\* C12: on a built tree generateProof(i) for a valid i lists, level by level from
\* the leaf's parent to the root, the children of the current node's parent other
\* than the current node, with position and current hash in ascending position
\* order, at most 2 per level, and pathLength is the number of levels from the leaf
\* to the root; on a 3-block tree generateProof(0) has positions 1 and 2 and
\* pathLength 1.
C12_ProofListsSiblings ==
    (/\ lastQuery.op = "generateProof"
     /\ rootID # Null
     /\ ~InvalidIndex(lastQuery.leafIndex, leafCount))
        => LET path == PathToRoot(nodes, lastQuery.leafIndex)
               p == lastQuery.ret.proof
           IN  /\ lastQuery.ret.thrown = NoThrow
               /\ p.leafIndex = lastQuery.leafIndex
               /\ path[Len(path)] = rootID
               /\ p.pathLength = Len(path) - 1
               /\ p.siblingHashes = SiblingsAlong(nodes, path, 1)
               /\ \A k \in 1..(Len(path) - 1) :
                     Len(SiblingsUnder(nodes, path[k + 1], path[k])) <= 2
               /\ (leafCount = 3 /\ lastQuery.leafIndex = 0)
                     => /\ p.pathLength = 1
                        /\ [k \in 1..Len(p.siblingHashes) |-> p.siblingHashes[k].pos]
                               = <<1, 2>>

\* C12 witness: the proof of block 1 of a tree of MaxBigBlocks blocks, three levels
\* long, with the siblings at positions 0 and 2 at the leaf level
C12_Witness ==
    /\ lastQuery.op = "generateProof"
    /\ leafCount = MaxBigBlocks
    /\ lastQuery.leafIndex = 1
    /\ lastQuery.ret.thrown = NoThrow
    /\ lastQuery.ret.proof.pathLength = 3
    /\ Len(lastQuery.ret.proof.siblingHashes) >= 4
    /\ lastQuery.ret.proof.siblingHashes[1].pos = 0
    /\ lastQuery.ret.proof.siblingHashes[2].pos = 2

\* C13: whenever a build, update or batchUpdate has completed, every internal
\* node's hash is the combination of its children's current hashes in child order.
C13_InternalHashesCurrent ==
    (rootID # Null /\ lastMut.thrown = NoThrow)
        => \A k \in 1..Len(nodes) :
              ~nodes[k].isLeaf
                  => nodes[k].hash = combineHashes(ChildHashes(nodes, nodes[k].children))

\* C14: verifyProof(proof, data) returns true only for a proof whose leafIndex is
\* a logical leaf index in [0, leafCount) and for the data stored for that leaf.
C14_OnlyLogicalLeavesVerify ==
    (lastQuery.op = "verifyProof" /\ lastQuery.ret.thrown = NoThrow /\ lastQuery.ret.ok)
        => /\ ~InvalidIndex(lastQuery.proof.leafIndex, leafCount)
           /\ lastQuery.data = leafData[lastQuery.proof.leafIndex + 1]

\* no layer of the build of leafCount blocks reaches parallelThreshold
NoParallelLayer ==
    cfg.parallelThreshold <= 0 \/ PaddedLength(leafCount) < cfg.parallelThreshold

\* C15: build suspends only at the join of a parallel layer: when no layer reaches
\* parallelThreshold no build call is ever suspended, and no call returns from an
\* instance whose leafCount is set while its rootID is still null.
C15_BuildSuspendsOnlyAtJoin ==
    /\ pending.phase # "leaf"
    /\ NoParallelLayer
          => /\ pending = NoBuild
             /\ lastQuery.op # "none" => ~(leafCount > 0 /\ rootID = Null)

\* the stepwise build ends where the build taken as one step ends
BuildStepsAgree ==
    (pending = NoBuild /\ lastMut.op = "build" /\ lastMut.thrown = NoThrow)
        => \E cache \in SUBSET hashCache :
              LET t == build(lastMut.dataBlocks, cache, cfg)
              IN  <<t.nodes, t.leafData, t.rootID, t.leafCount>> = tree

\* C16: the leaf-hash cache is scoped to one build call: a build starts with a
\* cache that holds no entry of an earlier build, and ends with the cache a build
\* on a new instance ends with.
C16_CacheScopedToBuild ==
    [][(lastMut' # lastMut /\ lastMut'.op = "build" /\ lastMut'.thrown = NoThrow)
          => /\ hashCache = {}
             /\ hashCache' = FreshBuild(lastMut'.dataBlocks).hashCache]_vars

\* C17: after a successful build every internal node has 2 or 3 children and
\* every leaf has none.
C17_TwoOrThreeChildren ==
    Built => \A k \in 1..Len(nodes) :
                IF nodes[k].isLeaf
                THEN Len(nodes[k].children) = 0
                ELSE Len(nodes[k].children) \in {2, 3}

====
